---- MODULE Spec2Model ----
(***************************************************************************)
(* Model of the ActionSheet overlay (service facade + presentation         *)
(* component) of src/angular/src/app-initialize.ts and of the              *)
(* SegmentButton component of src/unnamed/part_000.                        *)
(*                                                                         *)
(* JavaScript values are encoded as strings: "undefined", "null", "true",  *)
(* "false", "0", "1" stand for the values of those names, "" is the empty  *)
(* string, "fn" is a function object, any other string is itself.          *)
(* Options objects are functions from field names to values; a field that  *)
(* is absent from the object is absent from the DOMAIN.                    *)
(***************************************************************************)
EXTENDS Integers, Sequences, FiniteSets, TLC

VARIABLES
    config,     \* Configuration: key -> value
    nOpen,      \* number of ActionSheet.open() calls made so far
    calls,      \* per open() call: the options passed and the Configuration then
    requests,   \* OverlayController.open requests, in order, with their deferred result
    sheets,     \* overlay instances created by the OverlayController, in order
    lastOp,     \* what the last operation did (calls made, outcome, result)
    segChecked, \* SegmentButton.checked, per button
    segDisabled,\* SegmentButton.disabled, per button
    segEmits,   \* number of ionSelect events emitted, per button
    segRises,   \* number of changes of checked from false to true, per button
    segLast     \* the last SegmentButton operation

sheetVars == <<config, nOpen, calls, requests, sheets, lastOp>>
segVars == <<segChecked, segDisabled, segEmits, segRises, segLast>>
vars == <<config, nOpen, calls, requests, sheets, lastOp,
          segChecked, segDisabled, segEmits, segRises, segLast>>

-----------------------------------------------------------------------------
(* Bounds *)

MaxOpens == 2

NumSegButtons == 2

MaxSegEvents == 3

-----------------------------------------------------------------------------
(* JavaScript helpers *)

\* ToBoolean of an encoded JavaScript value
Truthy(v) == v \notin {"undefined", "null", "false", "0", ""}

\* o[k] of an options object: undefined when the field is absent
Get(o, k) == IF k \in DOMAIN o THEN o[k] ELSE "undefined"

\* whether calling v() succeeds (otherwise it throws TypeError)
Callable(v) == v = "fn"

\* util.extend(dst, src): copies every own field of src onto dst, returns dst
extend(dst, src) ==
    [k \in (DOMAIN dst) \cup (DOMAIN src) |->
        IF k \in DOMAIN src THEN src[k] ELSE dst[k]]

NoObject == [k \in {} |-> "undefined"]

-----------------------------------------------------------------------------
(* Inputs *)

OVERLAY_TYPE == "action-sheet"

\* Configurations the application may run with
ConfigChoices ==
    { [actionSheetEnter |-> "slide-in",
       actionSheetLeave |-> "slide-out",
       actionSheetCancelIcon |-> "ion-close",
       actionSheetDestructiveIcon |-> "ion-trash"],
      [actionSheetEnter |-> "action-sheet-md-slide-in",
       actionSheetLeave |-> "action-sheet-md-slide-out",
       actionSheetCancelIcon |-> "ion-md-close",
       actionSheetDestructiveIcon |-> "ion-md-trash"] }

\* Config.get(key)
configGet(cfg, key) == Get(cfg, key)

\* Options objects callers pass to ActionSheet.open
OptEmpty == NoObject

OptUsage ==
    [buttons |-> <<"Share This", "Move">>,
     destructiveText |-> "Delete",
     titleText |-> "Modify your album",
     cancelText |-> "Cancel",
     cancel |-> "fn",
     destructiveButtonClicked |-> "fn",
     buttonClicked |-> "fn"]

OptNoCallbacks ==
    [buttons |-> <<"A">>,
     destructiveText |-> "Del",
     cancelText |-> "Cancel"]

OptOverrides ==
    [buttons |-> <<"X", "Y", "Z">>,
     buttonClicked |-> "fn",
     enterAnimation |-> "custom-in",
     cancelIcon |-> "ion-x"]

OptPageType ==
    [pageType |-> "modal",
     destructiveText |-> "Del",
     destructiveButtonClicked |-> "fn",
     leaveAnimation |-> "custom-out",
     destructiveIcon |-> "ion-bin",
     cancel |-> "fn"]

CallerOptions == {OptEmpty, OptUsage, OptNoCallbacks, OptOverrides, OptPageType}

\* the options that differ in what the service reads: the fields it fills in
SvcOptions == {OptEmpty, OptOverrides, OptPageType}

\* Values a caller's callback may return
ReturnValues == {"true", "undefined", "0"}

-----------------------------------------------------------------------------
(* Events a handler produces, in order *)

Ev(f, args) == [f |-> f, args |-> args]

CloseEv == Ev("close", <<>>)

-----------------------------------------------------------------------------
(* ActionSheetCmp *)

\* ActionSheetCmp.constructor: this.d = params.data
CmpData(params) == params.data

\* cancel() that closes only when the cancel callback returns a truthy value
cancelClosesIfTruthy(d, r) ==
    [events |-> (IF Truthy(Get(d, "cancel")) THEN <<Ev("cancel", <<>>)>> ELSE <<>>)
                \o (IF Truthy(r) THEN <<CloseEv>> ELSE <<>>),
     outcome |-> "returned"]

\* ActionSheetCmp.cancel(); r is what the caller's cancel callback returns
cancel(d, r) ==
    [events |-> (IF Truthy(Get(d, "cancel")) THEN <<Ev("cancel", <<>>)>> ELSE <<>>)
                \o <<CloseEv>>,
     outcome |-> "returned"]

\* destructive() that closes whatever the callback returns
destructiveAlwaysCloses(d, r) ==
    IF ~Callable(Get(d, "destructiveButtonClicked"))
    THEN [events |-> <<>>, outcome |-> "TypeError"]
    ELSE [events |-> <<Ev("destructiveButtonClicked", <<>>), CloseEv>>,
          outcome |-> "returned"]

\* ActionSheetCmp.destructive(); r is what destructiveButtonClicked returns
destructive(d, r) ==
    IF ~Callable(Get(d, "destructiveButtonClicked"))
    THEN [events |-> <<>>, outcome |-> "TypeError"]
    ELSE [events |-> <<Ev("destructiveButtonClicked", <<>>)>>
                     \o (IF Truthy(r) THEN <<CloseEv>> ELSE <<>>),
          outcome |-> "returned"]

\* ActionSheetCmp.buttonClicked(index); r is what buttonClicked(index) returns
buttonClicked(d, index, r) ==
    IF ~Callable(Get(d, "buttonClicked"))
    THEN [events |-> <<>>, outcome |-> "TypeError"]
    ELSE [events |-> <<Ev("buttonClicked", <<index>>)>>
                     \o (IF Truthy(r) THEN <<CloseEv>> ELSE <<>>),
          outcome |-> "returned"]

\* Template: number of option buttons rendered by ng-for over d.buttons
NumButtons(d) == IF "buttons" \in DOMAIN d THEN Len(d["buttons"]) ELSE 0

\* a template that passes a 1-based index
ButtonIndexOneBased(pos) == pos + 1

\* Template: the argument the button at position pos (0-based) passes, #i=index
ButtonIndex(pos) == pos

\* Template: the destructive button exists only if d.destructiveText
HasDestructiveButton(d) == Truthy(Get(d, "destructiveText"))

\* Template: the cancel button exists only if d.cancelText
HasCancelButton(d) == Truthy(Get(d, "cancelText"))

-----------------------------------------------------------------------------
(* ActionSheet service *)

\* open() with the arguments of extend swapped: the defaults win, and the
\* caller's object is the one written to
openDefaultsWin(cfg, opts) ==
    LET merged ==
            extend(opts,
                   [pageType |-> OVERLAY_TYPE,
                    enterAnimation |-> configGet(cfg, "actionSheetEnter"),
                    leaveAnimation |-> configGet(cfg, "actionSheetLeave"),
                    cancelIcon |-> configGet(cfg, "actionSheetCancelIcon"),
                    destructiveIcon |-> configGet(cfg, "actionSheetDestructiveIcon")])
    IN [opts |-> merged,
        ctrlOpen |-> <<[componentType |-> "ActionSheetCmp",
                        params |-> merged,
                        opts |-> merged]>>,
        callerOpts |-> merged]

\* open() without the pageType default
openNoPageType(cfg, opts) ==
    LET merged ==
            extend([enterAnimation |-> configGet(cfg, "actionSheetEnter"),
                    leaveAnimation |-> configGet(cfg, "actionSheetLeave"),
                    cancelIcon |-> configGet(cfg, "actionSheetCancelIcon"),
                    destructiveIcon |-> configGet(cfg, "actionSheetDestructiveIcon")],
                   opts)
    IN [opts |-> merged,
        ctrlOpen |-> <<[componentType |-> "ActionSheetCmp",
                        params |-> merged,
                        opts |-> merged]>>,
        callerOpts |-> opts]

\* open() that asks the OverlayController a second time
openRetries(cfg, opts) ==
    LET merged ==
            extend([pageType |-> OVERLAY_TYPE,
                    enterAnimation |-> configGet(cfg, "actionSheetEnter"),
                    leaveAnimation |-> configGet(cfg, "actionSheetLeave"),
                    cancelIcon |-> configGet(cfg, "actionSheetCancelIcon"),
                    destructiveIcon |-> configGet(cfg, "actionSheetDestructiveIcon")],
                   opts)
        c == [componentType |-> "ActionSheetCmp", params |-> merged, opts |-> merged]
    IN [opts |-> merged, ctrlOpen |-> <<c, c>>, callerOpts |-> opts]

\* ActionSheet.open(opts): the merged options, the OverlayController.open
\* calls made (in order), and the caller's object as it is left
open(cfg, opts) ==
    LET merged ==
            extend([pageType |-> OVERLAY_TYPE,
                    enterAnimation |-> configGet(cfg, "actionSheetEnter"),
                    leaveAnimation |-> configGet(cfg, "actionSheetLeave"),
                    cancelIcon |-> configGet(cfg, "actionSheetCancelIcon"),
                    destructiveIcon |-> configGet(cfg, "actionSheetDestructiveIcon")],
                   opts)
    IN [opts |-> merged,
        ctrlOpen |-> <<[componentType |-> "ActionSheetCmp",
                        params |-> merged,
                        opts |-> merged]>>,
        callerOpts |-> opts]

-----------------------------------------------------------------------------
(* OverlayController *)

\* the handle of the n-th instance
HandleOf(n) == "h" \o ToString(n)

Present(s) == sheets[s].state # "removed"

\* OverlayController.getByHandle: 0 is the not-found value
getByHandle(handle) ==
    LET hits == {s \in 1..Len(sheets) : Present(s) /\ sheets[s].handle = handle}
    IN IF hits = {} THEN 0 ELSE CHOOSE s \in hits : TRUE

\* OverlayController.getByType: the most recent present instance of the type
getByType(type) ==
    LET hits == {s \in 1..Len(sheets) : Present(s) /\ sheets[s].pageType = type}
    IN IF hits = {} THEN 0 ELSE CHOOSE s \in hits : \A t \in hits : t <= s

\* get() that looks up by type whatever the handle
getIgnoresHandle(handle) == getByType(OVERLAY_TYPE)

\* ActionSheet.get(handle)
get(handle) ==
    IF Truthy(handle) THEN getByHandle(handle) ELSE getByType(OVERLAY_TYPE)

\* OverlayController.open(componentType, params, opts): one request. When the
\* overlay can be presented an instance is created, entering, and the deferred
\* result stays pending; otherwise the deferred result is rejected.
ctrlOpen(st, call, c, ok) ==
    LET n == Len(st.sheets) + 1
        inst == [handle |-> HandleOf(n),
                 pageType |-> Get(c.opts, "pageType"),
                 componentType |-> c.componentType,
                 state |-> "entering",
                 data |-> c.params,
                 props |-> c.opts,
                 closeRequested |-> FALSE,
                 call |-> call]
        req == [call |-> call,
                params |-> c.params,
                opts |-> c.opts,
                status |-> IF ok THEN "pending" ELSE "rejected",
                completions |-> IF ok THEN 0 ELSE 1,
                inst |-> IF ok THEN n ELSE 0]
    IN [sheets |-> IF ok THEN Append(st.sheets, inst) ELSE st.sheets,
        requests |-> Append(st.requests, req)]

RECURSIVE ctrlOpenAll(_, _, _, _)
ctrlOpenAll(st, call, cs, ok) ==
    IF cs = <<>> THEN st
    ELSE ctrlOpenAll(ctrlOpen(st, call, Head(cs), ok), call, Tail(cs), ok)

\* instance.close(), installed by the OverlayController: starts the leave
\* transition of a visible overlay
ctrlClose(sh) ==
    [sh EXCEPT !.state = IF sh.state = "visible" THEN "leaving" ELSE sh.state,
               !.closeRequested = TRUE]

RECURSIVE applyEvents(_, _)
applyEvents(sh, events) ==
    IF events = <<>> THEN sh
    ELSE applyEvents(IF Head(events) = CloseEv THEN ctrlClose(sh) ELSE sh,
                      Tail(events))

-----------------------------------------------------------------------------
(* SegmentButton *)

\* checkedChanged that emits on every change of checked
checkedChangedAnyChange(checked, prev) == IF checked # prev THEN 1 ELSE 0

\* SegmentButton.checkedChanged(checked, prev): number of ionSelect.emit() calls
checkedChanged(checked, prev) == IF checked /\ ~prev THEN 1 ELSE 0

\* @Watch('checked'): the watcher runs when the property's value changes
watchChecked(new, old) == IF new # old THEN checkedChanged(new, old) ELSE 0

\* SegmentButton.onClick: the value it assigns to checked
onClick == TRUE

-----------------------------------------------------------------------------
(* Initial state *)

Init ==
    /\ config \in ConfigChoices
    /\ nOpen = 0
    /\ calls = <<>>
    /\ requests = <<>>
    /\ sheets = <<>>
    /\ lastOp = [op |-> "init"]
    /\ segChecked = [b \in 1..NumSegButtons |-> FALSE]
    /\ segDisabled = [b \in 1..NumSegButtons |-> FALSE]
    /\ segEmits = [b \in 1..NumSegButtons |-> 0]
    /\ segRises = [b \in 1..NumSegButtons |-> 0]
    /\ segLast = [op |-> "init"]

-----------------------------------------------------------------------------
(* Operations of the action sheet *)

\* a caller calls ActionSheet.open(o)
Open(o, ok) ==
    /\ nOpen < MaxOpens
    /\ LET r == open(config, o)
            st == ctrlOpenAll([sheets |-> sheets, requests |-> requests],
                              nOpen + 1, r.ctrlOpen, ok)
       IN /\ nOpen' = nOpen + 1
          /\ calls' = Append(calls, [passed |-> o, cfg |-> config])
          /\ sheets' = st.sheets
          /\ requests' = st.requests
          /\ lastOp' = [op |-> "open", call |-> nOpen + 1, passed |-> o,
                        callerOpts |-> r.callerOpts, merged |-> r.opts,
                        returned |-> Len(requests) + Len(r.ctrlOpen)]
    /\ UNCHANGED <<config, segVars>>

\* the enter animation of instance s finishes: the deferred result resolves
EnterDone(s) ==
    /\ s \in 1..Len(sheets)
    /\ sheets[s].state = "entering"
    /\ sheets' = [sheets EXCEPT ![s].state = "visible"]
    /\ requests' = [q \in 1..Len(requests) |->
                        IF requests[q].inst = s
                        THEN [requests[q] EXCEPT !.status = "resolved",
                                                 !.completions = @ + 1]
                        ELSE requests[q]]
    /\ lastOp' = [op |-> "entered", sheet |-> s]
    /\ UNCHANGED <<config, nOpen, calls, segVars>>

\* the leave animation of instance s finishes: the overlay is removed
LeaveDone(s) ==
    /\ s \in 1..Len(sheets)
    /\ sheets[s].state = "leaving"
    /\ sheets' = [sheets EXCEPT ![s].state = "removed"]
    /\ lastOp' = [op |-> "left", sheet |-> s]
    /\ UNCHANGED <<config, nOpen, calls, requests, segVars>>

\* the rendered component of instance s can receive clicks
Clickable(s) ==
    /\ s \in 1..Len(sheets)
    /\ sheets[s].state # "removed"

\* a handler of instance s ran with result h
Handled(s, op, via, pos, r, h) ==
    /\ sheets' = [sheets EXCEPT ![s] = applyEvents(sheets[s], h.events)]
    /\ lastOp' = [op |-> op, via |-> via, sheet |-> s, pos |-> pos, ret |-> r,
                  before |-> sheets[s].state,
                  closedBefore |-> sheets[s].closeRequested, events |-> h.events,
                  outcome |-> h.outcome]
    /\ UNCHANGED <<config, nOpen, calls, requests, segVars>>

\* <backdrop (click)="cancel()">
TapBackdrop(s, r) ==
    /\ Clickable(s)
    /\ Handled(s, "cancel", "backdrop", <<>>, r, cancel(CmpData(sheets[s]), r))

\* <button (click)="cancel()"> inside *ng-if="d.cancelText"
TapCancelButton(s, r) ==
    /\ Clickable(s)
    /\ HasCancelButton(CmpData(sheets[s]))
    /\ Handled(s, "cancel", "button", <<>>, r, cancel(CmpData(sheets[s]), r))

\* <button *ng-if="d.destructiveText" (click)="destructive()">
TapDestructive(s, r) ==
    /\ Clickable(s)
    /\ HasDestructiveButton(CmpData(sheets[s]))
    /\ Handled(s, "destructive", "button", <<>>, r,
               destructive(CmpData(sheets[s]), r))

\* <button (click)="buttonClicked(i)" *ng-for="#b of d.buttons; #i=index">
TapButton(s, pos, r) ==
    /\ Clickable(s)
    /\ pos \in 0..(NumButtons(CmpData(sheets[s])) - 1)
    /\ Handled(s, "buttonClicked", "button", <<pos>>, r,
               buttonClicked(CmpData(sheets[s]), ButtonIndex(pos), r))

\* handles a caller may pass to get: issued ones, one never issued, the empty
\* string, and none at all
HandleInputs == {HandleOf(n) : n \in 1..(MaxOpens + 1)} \cup {"", "undefined"}

\* the application changes its Configuration
ConfigChanged(c) ==
    /\ c # config
    /\ config' = c
    /\ lastOp' = [op |-> "config"]
    /\ UNCHANGED <<nOpen, calls, requests, sheets, segVars>>

\* The presentation component: one instance, every interaction with it
Next ==
    \/ \E o \in CallerOptions, ok \in BOOLEAN : nOpen = 0 /\ Open(o, ok)
    \/ \E s \in 1..Len(sheets) : EnterDone(s)
    \/ \E s \in 1..Len(sheets) : LeaveDone(s)
    \/ \E s \in 1..Len(sheets), r \in ReturnValues : TapBackdrop(s, r)
    \/ \E s \in 1..Len(sheets), r \in ReturnValues : TapCancelButton(s, r)
    \/ \E s \in 1..Len(sheets), r \in ReturnValues : TapDestructive(s, r)
    \/ \E s \in 1..Len(sheets), r \in ReturnValues :
          \E pos \in 0..(NumButtons(CmpData(sheets[s])) - 1) : TapButton(s, pos, r)

Spec == Init /\ [][Next]_vars

\* The service: several open calls, the overlays' lifecycles, Configuration
\* changes. A close is requested here by backdrop taps; the other taps reach
\* the controller through the same close() and add no state of the registry.
SvcNext ==
    \/ \E o \in SvcOptions, ok \in BOOLEAN : Open(o, ok)
    \/ \E s \in 1..Len(sheets) : EnterDone(s)
    \/ \E s \in 1..Len(sheets) : LeaveDone(s)
    \/ \E s \in 1..Len(sheets) : TapBackdrop(s, "undefined")
    \/ \E c \in ConfigChoices : ConfigChanged(c)

SvcSpec == Init /\ [][SvcNext]_vars

-----------------------------------------------------------------------------
(* Operations of the segment buttons *)

\* checked of button b is assigned v: the watcher runs
SetChecked(b, v, op) ==
    /\ segChecked' = [segChecked EXCEPT ![b] = v]
    /\ segEmits' = [segEmits EXCEPT ![b] = @ + watchChecked(v, segChecked[b])]
    /\ segRises' = [segRises EXCEPT ![b] = @ + (IF v /\ ~segChecked[b] THEN 1 ELSE 0)]
    /\ segLast' = [op |-> op, button |-> b, value |-> v, prev |-> segChecked[b],
                   emitted |-> watchChecked(v, segChecked[b])]
    /\ UNCHANGED <<segDisabled, sheetVars>>

\* the user clicks the native button of b (a disabled button gets no click)
SegClick(b) ==
    /\ ~segDisabled[b]
    /\ segEmits[b] < MaxSegEvents
    /\ SetChecked(b, onClick, "click")

\* the page (or the parent segment) writes the checked property of b
SegWrite(b, v) ==
    /\ segEmits[b] < MaxSegEvents
    /\ SetChecked(b, v, "write")

\* the page writes the disabled property of b
SegSetDisabled(b, v) ==
    /\ v # segDisabled[b]
    /\ segDisabled' = [segDisabled EXCEPT ![b] = v]
    /\ segLast' = [op |-> "disabled", button |-> b, value |-> v,
                   prev |-> segDisabled[b], emitted |-> 0]
    /\ UNCHANGED <<segChecked, segEmits, segRises, sheetVars>>

SegNext ==
    \/ \E b \in 1..NumSegButtons : SegClick(b)
    \/ \E b \in 1..NumSegButtons, v \in BOOLEAN : SegWrite(b, v)
    \/ \E b \in 1..NumSegButtons, v \in BOOLEAN : SegSetDisabled(b, v)

SegSpec == Init /\ [][SegNext]_vars

-----------------------------------------------------------------------------
(* Vocabulary of the properties *)

HandlerOps == {"cancel", "destructive", "buttonClicked"}

\* number of calls of f among the events of a handler
Count(events, f) == Cardinality({i \in 1..Len(events) : events[i].f = f})

\* the option a handler reads its callback from
CallbackOf(op) ==
    IF op = "destructive" THEN "destructiveButtonClicked" ELSE op

\* the Configuration key behind each defaulted option
DefaultKeys ==
    [enterAnimation |-> "actionSheetEnter",
     leaveAnimation |-> "actionSheetLeave",
     cancelIcon |-> "actionSheetCancelIcon",
     destructiveIcon |-> "actionSheetDestructiveIcon"]

\* defaults + overrides, as the specification states the merge
ExpectedMerged(o, cfg) ==
    [k \in (DOMAIN o) \cup (DOMAIN DefaultKeys) \cup {"pageType"} |->
        IF k \in DOMAIN o THEN o[k]
        ELSE IF k = "pageType" THEN "action-sheet"
        ELSE cfg[DefaultKeys[k]]]

\* the present instance registered under handle h, 0 if there is none
UnderHandle(h) ==
    IF \E s \in 1..Len(sheets) : Present(s) /\ sheets[s].handle = h
    THEN CHOOSE s \in 1..Len(sheets) : Present(s) /\ sheets[s].handle = h
    ELSE 0

\* the greatest element of a set of instances, 0 if it is empty
Latest(S) == IF S = {} THEN 0 ELSE CHOOSE s \in S : \A t \in S : t <= s

-----------------------------------------------------------------------------
(* Properties *)

\* C1: a Cancel interaction (backdrop or cancel button) on a visible sheet
\* calls the caller's cancel callback exactly once if it was supplied and not
\* at all otherwise, requests the close after that call, and leaves the sheet
\* leaving, whatever the callback returned.
C1_CancelCallsBackThenCloses ==
    (lastOp.op = "cancel" /\ lastOp.before = "visible") =>
        LET sh == sheets[lastOp.sheet]
            n == Len(lastOp.events)
        IN /\ lastOp.outcome = "returned"
           /\ Count(lastOp.events, "cancel")
                = (IF "cancel" \in DOMAIN sh.data THEN 1 ELSE 0)
           /\ Count(lastOp.events, "close") = 1
           /\ lastOp.events[n] = CloseEv
           /\ Count(lastOp.events, "buttonClicked") = 0
           /\ Count(lastOp.events, "destructiveButtonClicked") = 0
           /\ sh.state = "leaving"

\* a backdrop tap on a visible sheet whose cancel callback returned 0
C1_Witness ==
    /\ lastOp.op = "cancel"
    /\ lastOp.via = "backdrop"
    /\ lastOp.before = "visible"
    /\ lastOp.ret = "0"
    /\ "cancel" \in DOMAIN sheets[lastOp.sheet].data
    /\ "buttonClicked" \in DOMAIN sheets[lastOp.sheet].data
    /\ lastOp.events = <<Ev("cancel", <<>>), CloseEv>>
    /\ sheets[lastOp.sheet].state = "leaving"

\* C2: with the callback supplied, a destructive tap or a button tap on a
\* visible sheet leaves it leaving exactly when the callback returned a truthy
\* value; otherwise the sheet is still visible and still takes clicks.
C2_ClosesIffTruthy ==
    (/\ lastOp.op \in {"destructive", "buttonClicked"}
     /\ lastOp.before = "visible"
     /\ CallbackOf(lastOp.op) \in DOMAIN sheets[lastOp.sheet].data) =>
        LET sh == sheets[lastOp.sheet]
        IN /\ (sh.state = "leaving") <=> Truthy(lastOp.ret)
           /\ ~Truthy(lastOp.ret) => (sh.state = "visible" /\ Clickable(lastOp.sheet))

\* a destructive tap on a visible sheet whose callback returned 0
C2_Witness ==
    /\ lastOp.op = "destructive"
    /\ lastOp.before = "visible"
    /\ lastOp.ret = "0"
    /\ lastOp.events = <<Ev("destructiveButtonClicked", <<>>)>>
    /\ sheets[lastOp.sheet].state = "visible"

\* C3: when the options supply no destructiveButtonClicked (no buttonClicked),
\* a destructive tap (a button tap) leaves the sheet as it was and the handler
\* returns normally.
C3_MissingCallbackReturnsNormally ==
    (/\ lastOp.op \in {"destructive", "buttonClicked"}
     /\ CallbackOf(lastOp.op) \notin DOMAIN sheets[lastOp.sheet].data) =>
        /\ lastOp.outcome = "returned"
        /\ sheets[lastOp.sheet].state = lastOp.before

\* C4: buttonClicked is called with index i exactly when the button at
\* position i (0-based, in the order of options.buttons) is tapped, 0 <= i < N;
\* cancel and destructive taps never call it, and a button tap calls neither
\* cancel nor destructiveButtonClicked.
C4_ButtonIndexIsPosition ==
    (lastOp.op \in HandlerOps) =>
        LET d == sheets[lastOp.sheet].data
        IN /\ \A i \in 1..Len(lastOp.events) :
                lastOp.events[i].f = "buttonClicked" =>
                    /\ lastOp.op = "buttonClicked"
                    /\ lastOp.events[i].args = lastOp.pos
           /\ lastOp.op = "buttonClicked" =>
                /\ lastOp.pos[1] \in 0..(Len(d["buttons"]) - 1)
                /\ Count(lastOp.events, "cancel") = 0
                /\ Count(lastOp.events, "destructiveButtonClicked") = 0
                /\ ("buttonClicked" \in DOMAIN d)
                      => Count(lastOp.events, "buttonClicked") = 1

\* the third of three buttons is tapped and buttonClicked(2) is called
C4_Witness ==
    /\ lastOp.op = "buttonClicked"
    /\ lastOp.pos = <<2>>
    /\ Len(sheets[lastOp.sheet].data["buttons"]) = 3
    /\ lastOp.events[1] = Ev("buttonClicked", <<2>>)

\* C5: a handler requests a close only while the sheet is visible, so that an
\* interaction delivered while it is entering, leaving or removed changes
\* nothing, each step of the lifecycle is the next one of entering -> visible
\* -> leaving -> removed, and close is requested at most once per instance.
C5_HandlersActOnlyWhileVisible ==
    (lastOp.op \in HandlerOps) =>
        LET sh == sheets[lastOp.sheet]
        IN /\ lastOp.before # "visible" => Count(lastOp.events, "close") = 0
           /\ Count(lastOp.events, "close") > 0 => ~lastOp.closedBefore
           /\ Count(lastOp.events, "close") <= 1
           /\ \/ sh.state = lastOp.before
              \/ (lastOp.before = "visible" /\ sh.state = "leaving")

\* C6: open(options) merges: each of the four defaulted options is the
\* caller's value when supplied and otherwise the Configuration value under
\* its key, every caller field is carried over, the merged object is what the
\* OverlayController receives, and neither the caller's object nor the
\* Configuration is written.
C6_OpenMergesDefaults ==
    (lastOp.op = "open") =>
        LET o == lastOp.passed
            m == lastOp.merged
        IN /\ \A f \in DOMAIN DefaultKeys :
                /\ f \in DOMAIN m
                /\ m[f] = (IF f \in DOMAIN o THEN o[f] ELSE config[DefaultKeys[f]])
           /\ \A k \in DOMAIN o : k \in DOMAIN m /\ m[k] = o[k]
           /\ lastOp.callerOpts = o
           /\ config = calls[lastOp.call].cfg
           /\ requests[lastOp.returned].params = m
           /\ requests[lastOp.returned].opts = m

\* open({}) with actionSheetEnter = 'slide-in' gives enterAnimation 'slide-in'
C6_Witness ==
    /\ lastOp.op = "open"
    /\ lastOp.passed = OptEmpty
    /\ config["actionSheetEnter"] = "slide-in"
    /\ lastOp.merged["enterAnimation"] = "slide-in"
    /\ lastOp.merged["cancelIcon"] = "ion-close"

\* C7 (as amended): once open has resolved and while the overlay is present,
\* get(handle) is the instance of that open call, whose data and render props
\* are the merged options of the call; an unknown non-empty handle gives the
\* not-found value.
C7_GetByHandleRoundTrip ==
    /\ \A q \in 1..Len(requests) :
          (requests[q].status = "resolved" /\ Present(requests[q].inst)) =>
              LET s == requests[q].inst
                  c == calls[requests[q].call]
              IN /\ get(sheets[s].handle) = s
                 /\ sheets[s].call = requests[q].call
                 /\ sheets[s].props = ExpectedMerged(c.passed, c.cfg)
                 /\ sheets[s].data = sheets[s].props
    /\ \A h \in HandleInputs :
          (Truthy(h) /\ UnderHandle(h) = 0) => get(h) = 0

\* two sheets opened with different options, each found under its own handle
C7_Witness ==
    /\ Len(sheets) = 2
    /\ sheets[1].state = "visible"
    /\ sheets[2].state = "visible"
    /\ sheets[1].props # sheets[2].props
    /\ get(sheets[1].handle) = 1
    /\ get(sheets[2].handle) = 2
    /\ get(HandleOf(MaxOpens + 1)) = 0

\* C7 (as stated): the same, for every handle given, the empty string included
C7_AnyUnknownHandleNotFound ==
    /\ \A q \in 1..Len(requests) :
          (requests[q].status = "resolved" /\ Present(requests[q].inst)) =>
              get(sheets[requests[q].inst].handle) = requests[q].inst
    /\ \A h \in HandleInputs \ {"undefined"} :
          (UnderHandle(h) = 0) => get(h) = 0

\* C8 (as amended): get without a handle, or with a falsy one, is the most
\* recent present instance whose merged pageType is 'action-sheet' (an open
\* call that passes no pageType gets that type); get with a truthy handle is
\* the lookup by handle.
C8_GetWithoutHandleIsByMergedType ==
    LET typed == {s \in 1..Len(sheets) :
                    Present(s) /\ Get(sheets[s].props, "pageType") = "action-sheet"}
    IN /\ \A h \in HandleInputs :
            get(h) = (IF Truthy(h) THEN UnderHandle(h) ELSE Latest(typed))
       /\ \A s \in 1..Len(sheets) :
            (Present(s) /\ "pageType" \notin DOMAIN calls[sheets[s].call].passed)
                => s \in typed

\* a sheet opened with pageType 'modal' after a plain one: get() is the plain one
C8_Witness ==
    /\ Len(sheets) = 2
    /\ Present(1)
    /\ Present(2)
    /\ calls[sheets[1].call].passed = OptEmpty
    /\ calls[sheets[2].call].passed = OptPageType
    /\ get("undefined") = 1
    /\ get("") = 1
    /\ get(sheets[2].handle) = 2

\* C8 (as stated): get without a handle is the most recent present action
\* sheet whatever options it was opened with, and get with any handle given
\* is the lookup by handle.
C8_GetLatestSheetHandleAlone ==
    LET opened == {s \in 1..Len(sheets) :
                     Present(s) /\ sheets[s].componentType = "ActionSheetCmp"}
    IN /\ get("undefined") = Latest(opened)
       /\ \A h \in HandleInputs \ {"undefined"} : get(h) = UnderHandle(h)

\* C9: every open() call makes one request to the OverlayController and
\* returns its deferred result, which completes at most once: resolved only
\* when the instance has become visible, rejected with no instance registered.
C9_OneRequestOneCompletion ==
    /\ \A k \in 1..nOpen :
          Cardinality({q \in 1..Len(requests) : requests[q].call = k}) = 1
    /\ \A q \in 1..Len(requests) :
          LET r == requests[q]
          IN /\ r.completions <= 1
             /\ (r.completions = 1) <=> (r.status # "pending")
             /\ r.status = "pending" =>
                   (r.inst \in 1..Len(sheets) /\ sheets[r.inst].state = "entering")
             /\ r.status = "resolved" =>
                   /\ r.inst \in 1..Len(sheets)
                   /\ sheets[r.inst].state # "entering"
                   /\ sheets[r.inst].call = r.call
             /\ r.status = "rejected" =>
                   /\ r.inst = 0
                   /\ \A s \in 1..Len(sheets) : sheets[s].call # r.call
    /\ lastOp.op = "open" =>
          /\ lastOp.returned \in 1..Len(requests)
          /\ requests[lastOp.returned].call = lastOp.call
    /\ lastOp.op = "entered" =>
          /\ sheets[lastOp.sheet].state = "visible"
          /\ \E q \in 1..Len(requests) :
                requests[q].inst = lastOp.sheet /\ requests[q].status = "resolved"

\* one open call resolved and another rejected
C9_Witness ==
    /\ nOpen = 2
    /\ \E q \in 1..Len(requests) :
          requests[q].status = "resolved" /\ requests[q].completions = 1
    /\ \E q \in 1..Len(requests) :
          requests[q].status = "rejected" /\ requests[q].completions = 1

====
